---- MODULE Spec2Model ----
(***************************************************************************)
(* A model of CloudFlare/cloudflare.py: the client's configuration, the    *)
(* endpoint nodes and their verbs, the authentication resolver, the        *)
(* request built for the Transport, the response normaliser (_raw) and the *)
(* success-field sanitisation and unwrapping (_call).                      *)
(*                                                                         *)
(* Python values are modelled as follows.  A string-or-None value is a     *)
(* string, None being the sentinel below.  A JSON/Python value is a record *)
(* tagged by t: null, bool, num, str, list (a sequence) or dict (a         *)
(* function from its keys).  A dict of strings (headers, the config) is a  *)
(* function from its keys.                                                 *)
(***************************************************************************)
EXTENDS Integers, Sequences, FiniteSets, TLC

VARIABLES
    config,     \* _v4base.config: the credential entries, generic and per method
    raw,        \* _v4base.raw
    tree,       \* the endpoint nodes of the client, by attribute path
    server,     \* what the Transport will answer to a request
    lastcall,   \* the arguments of the last verb call
    sent,       \* the requests the last call handed to the Transport
    stages,     \* the response-processing steps the last call ran, in order
    response_data,  \* the response as the last call left it (null when none)
    outcome,    \* how the last call ended: a returned value or a raised error
    table,      \* the endpoint table the client is built from
    added       \* the entries of the table whose add() returned

vars == <<config, raw, tree, server, lastcall, sent, stages, response_data, outcome,
          table, added>>

----------------------------------------------------------------------------
(* Python values *)

None == "<None>"

JNull == [t |-> "null"]
JBool(b) == [t |-> "bool", b |-> b]
JNum(n) == [t |-> "num", n |-> n]
JStr(s) == [t |-> "str", s |-> s]
JList(q) == [t |-> "list", items |-> q]
JDict(f) == [t |-> "dict", d |-> f]

EmptyDict == [k \in {} |-> None]
Put(d, k, v) == [z \in (DOMAIN d) \cup {k} |-> IF z = k THEN v ELSE d[z]]
Del(d, k) == [z \in (DOMAIN d) \ {k} |-> d[z]]
One(k, v) == Put(EmptyDict, k, v)

\* Python truthiness of a string-or-None and of a JSON/Python value
TruthyStr(s) == s # None /\ s # ""
Truthy(v) ==
    CASE v.t = "null" -> FALSE
      [] v.t = "bool" -> v.b
      [] v.t = "num"  -> v.n # 0
      [] v.t = "str"  -> v.s # ""
      [] v.t = "list" -> Len(v.items) > 0
      [] v.t = "dict" -> DOMAIN v.d # {}

\* a call's result: a value, or a raised exception
Return(v) == [ok |-> TRUE, val |-> v]
Raise(e) == [ok |-> FALSE, exc |-> e]
\* the code and the message of an exception are Python values
CloudFlareAPIErrorChain(code, message, chain) ==
    [type |-> "CloudFlareAPIError", code |-> code, message |-> message, error_chain |-> chain]
CloudFlareAPIError(code, message) ==
    CloudFlareAPIErrorChain(JNum(code), JStr(message), JNull)
CloudFlareInternalError(code, message) ==
    [type |-> "CloudFlareInternalError", code |-> JNum(code), message |-> JStr(message),
     error_chain |-> JNull]
\* an exception of Python or of the requests library, not built by this code
Foreign(type) ==
    [type |-> type, code |-> JNull, message |-> JNull, error_chain |-> JNull]

----------------------------------------------------------------------------
(* _v4base: configuration and headers *)

BASE_URL == "https://api.cloudflare.com/client/v4"
USER_AGENT == "python-cloudflare"

Methods == {"GET", "PATCH", "POST", "PUT", "DELETE"}

\* str.lower() on the method names the verbs pass
Lower(method) ==
    CASE method = "GET" -> "get"
      [] method = "PATCH" -> "patch"
      [] method = "POST" -> "post"
      [] method = "PUT" -> "put"
      [] method = "DELETE" -> "delete"

api_email(cfg) == IF "email" \in DOMAIN cfg THEN cfg["email"] ELSE None
api_key(cfg) == IF "key" \in DOMAIN cfg THEN cfg["key"] ELSE None
api_token(cfg) == IF "token" \in DOMAIN cfg THEN cfg["token"] ELSE None
api_certtoken(cfg) == IF "certtoken" \in DOMAIN cfg THEN cfg["certtoken"] ELSE None

\* variant: the generic value is used when there is one
MethodValue_generic_first(cfg, field, method, generic) ==
    LET v == field \o "." \o Lower(method)
    IN  IF generic # None \/ v \notin DOMAIN cfg THEN generic ELSE cfg[v]

\* the value of a credential field for a call with this method: the
\* '<field>.<method>' entry when the config holds one, else the generic value
MethodValue(cfg, field, method, generic) ==
    LET v == field \o "." \o Lower(method)
    IN  IF v \in DOMAIN cfg THEN cfg[v] ELSE generic

Bearer(s) == "Bearer " \o s

_add_headers(headers) ==
    Put(Put(headers, "User-Agent", USER_AGENT), "Content-Type", "application/json")

\* variant: a key and a token together are not refused, the token is used
_add_auth_headers_token_wins(cfg, headers, method) ==
    LET email == MethodValue(cfg, "email", method, api_email(cfg))
        key == MethodValue(cfg, "key", method, api_key(cfg))
        token == MethodValue(cfg, "token", method, api_token(cfg))
    IN  IF email = None /\ key = None /\ token = None
        THEN Raise(CloudFlareAPIError(0, "neither email/key or token defined"))
        ELSE IF email # None /\ key = None /\ token = None
        THEN Raise(CloudFlareAPIError(0, "email defined however neither key or token defined"))
        ELSE IF email = None /\ token # None
        THEN Return(Put(headers, "Authorization", Bearer(token)))
        ELSE IF email = None
        THEN Return(Put(headers, "Authorization", Bearer(key)))
        ELSE IF token # None
        THEN Return(Put(Put(headers, "X-Auth-Email", email), "X-Auth-Key", token))
        ELSE Return(Put(Put(headers, "X-Auth-Email", email), "X-Auth-Key", key))

\* variant: a key without an email goes out as X-Auth-Key
_add_auth_headers_key_header(cfg, headers, method) ==
    LET email == MethodValue(cfg, "email", method, api_email(cfg))
        key == MethodValue(cfg, "key", method, api_key(cfg))
        token == MethodValue(cfg, "token", method, api_token(cfg))
    IN  IF email = None /\ key = None /\ token = None
        THEN Raise(CloudFlareAPIError(0, "neither email/key or token defined"))
        ELSE IF key # None /\ token # None
        THEN Raise(CloudFlareAPIError(0, "confused info - both key and token defined"))
        ELSE IF email # None /\ key = None /\ token = None
        THEN Raise(CloudFlareAPIError(0, "email defined however neither key or token defined"))
        ELSE IF email = None /\ token # None
        THEN Return(Put(headers, "Authorization", Bearer(token)))
        ELSE IF email = None /\ key # None
        THEN Return(Put(headers, "X-Auth-Key", key))
        ELSE IF email # None /\ key # None
        THEN Return(Put(Put(headers, "X-Auth-Email", email), "X-Auth-Key", key))
        ELSE Return(Put(Put(headers, "X-Auth-Email", email), "X-Auth-Key", token))

_add_auth_headers(cfg, headers, method) ==
    LET email == MethodValue(cfg, "email", method, api_email(cfg))
        key == MethodValue(cfg, "key", method, api_key(cfg))
        token == MethodValue(cfg, "token", method, api_token(cfg))
    IN  IF email = None /\ key = None /\ token = None
        THEN Raise(CloudFlareAPIError(0, "neither email/key or token defined"))
        ELSE IF key # None /\ token # None
        THEN Raise(CloudFlareAPIError(0, "confused info - both key and token defined"))
        ELSE IF email # None /\ key = None /\ token = None
        THEN Raise(CloudFlareAPIError(0, "email defined however neither key or token defined"))
        ELSE IF email = None /\ token # None
        THEN Return(Put(headers, "Authorization", Bearer(token)))
        ELSE IF email = None /\ key # None
        THEN Return(Put(headers, "Authorization", Bearer(key)))
        ELSE IF email # None /\ key # None
        THEN Return(Put(Put(headers, "X-Auth-Email", email), "X-Auth-Key", key))
        ELSE IF email # None /\ token # None
        THEN Return(Put(Put(headers, "X-Auth-Email", email), "X-Auth-Key", token))
        ELSE Raise(CloudFlareInternalError(0, "coding issue!"))

_add_certtoken_headers(cfg, headers, method) ==
    LET certtoken == MethodValue(cfg, "certtoken", method, api_certtoken(cfg))
    IN  IF certtoken = None
        THEN Raise(CloudFlareAPIError(0, "no cert token defined"))
        ELSE Return(Put(headers, "X-Auth-User-Service-Key", certtoken))

----------------------------------------------------------------------------
(* _v4base._call_network: the URL, the request, the Transport's answer *)

\* The Transport's answer is either an exception or a response: the fields of
\* its Content-Type header as ';' separates them (<<>> when the header is
\* missing), its status code and its content.  The content is a sequence of
\* lines; a line is the text of one JSON value (json, with its value) or is
\* not JSON.
JsonLine(v) == [json |-> TRUE, val |-> v]
GarbageLine == [json |-> FALSE, val |-> JNull]

\* the body as a Python string: decoded (repr FALSE) or through str() of the
\* bytes, which yields their repr (repr TRUE)
Text(body, repr) == [t |-> "text", body |-> body, repr |-> repr]

RECURSIVE JoinFields(_)
JoinFields(fields) ==
    IF Len(fields) = 1 THEN fields[1]
    ELSE fields[1] \o ";" \o JoinFields(Tail(fields))

\* response.headers['Content-Type'] up to its last ';' (strip() and lower() do
\* not change the header values of the model); the default when it is missing
ResponseType(header) ==
    IF Len(header) = 0 THEN "application/octet-stream"
    ELSE IF Len(header) = 1 THEN header[1]
    ELSE JoinFields(SubSeq(header, 1, Len(header) - 1))

\* the exceptions of the requests library that derive from RequestException
RequestExceptions == {"RequestException", "ConnectionError", "Timeout"}

\* variant: a supplied identifier is in the URL whether or not its segment is
BuildUrl_every_identifier(method, parts, identifiers, data) ==
    LET head ==
            IF parts[2] # None \/ (data.t # "null" /\ method = "GET")
            THEN BASE_URL \o "/" \o parts[1] \o "/" \o identifiers[1] \o "/" \o parts[2]
            ELSE IF identifiers[1] = None
                 THEN BASE_URL \o "/" \o parts[1]
                 ELSE BASE_URL \o "/" \o parts[1] \o "/" \o identifiers[1]
        id2 == IF identifiers[2] = None THEN "" ELSE "/" \o identifiers[2]
        seg3 == IF TruthyStr(parts[3]) THEN "/" \o parts[3] ELSE ""
        id3 == IF TruthyStr(identifiers[3]) THEN "/" \o identifiers[3] ELSE ""
        seg4 == IF TruthyStr(parts[3]) /\ TruthyStr(parts[4]) THEN "/" \o parts[4] ELSE ""
        id4 == IF TruthyStr(identifiers[4]) THEN "/" \o identifiers[4] ELSE ""
        seg5 == IF TruthyStr(parts[3]) /\ TruthyStr(parts[4]) /\ TruthyStr(parts[5])
                THEN "/" \o parts[5] ELSE ""
    IN  head \o id2 \o seg3 \o id3 \o seg4 \o id4 \o seg5

BuildUrl(method, parts, identifiers, data) ==
    LET head ==
            IF parts[2] # None \/ (data.t # "null" /\ method = "GET")
            THEN IF identifiers[2] = None
                 THEN BASE_URL \o "/" \o parts[1] \o "/" \o identifiers[1] \o "/" \o parts[2]
                 ELSE BASE_URL \o "/" \o parts[1] \o "/" \o identifiers[1] \o "/" \o parts[2]
                          \o "/" \o identifiers[2]
            ELSE IF identifiers[1] = None
                 THEN BASE_URL \o "/" \o parts[1]
                 ELSE BASE_URL \o "/" \o parts[1] \o "/" \o identifiers[1]
        seg3 == IF TruthyStr(parts[3]) THEN "/" \o parts[3] ELSE ""
        id3 == IF TruthyStr(parts[3]) /\ TruthyStr(identifiers[3])
               THEN "/" \o identifiers[3] ELSE ""
        seg4 == IF TruthyStr(parts[3]) /\ TruthyStr(parts[4]) THEN "/" \o parts[4] ELSE ""
        id4 == IF TruthyStr(parts[3]) /\ TruthyStr(parts[4]) /\ TruthyStr(identifiers[4])
               THEN "/" \o identifiers[4] ELSE ""
        seg5 == IF TruthyStr(parts[3]) /\ TruthyStr(parts[4]) /\ TruthyStr(parts[5])
                THEN "/" \o parts[5] ELSE ""
    IN  head \o seg3 \o id3 \o seg4 \o id4 \o seg5

\* the keys of a dict in a fixed order
RECURSIVE KeySeq(_)
KeySeq(keys) ==
    IF keys = {} THEN <<>>
    ELSE LET k == CHOOSE z \in keys : TRUE IN <<k>> \o KeySeq(keys \ {k})

\* files and data sent together: the files, then the data's fields as form
\* fields without a file name
MergeFiles(files, data) ==
    [ i \in 1..Len(KeySeq(DOMAIN files.d)) |->
        LET f == KeySeq(DOMAIN files.d)[i]
        IN  [field |-> f, name |-> files.d[f], content |-> JStr(files.d[f])] ]
    \o
    [ i \in 1..Len(KeySeq(DOMAIN data.d)) |->
        LET d == KeySeq(DOMAIN data.d)[i]
        IN  [field |-> d, name |-> None, content |-> data.d[d]] ]

Request(method, url, headers, params, data, files) ==
    [method |-> method, url |-> url, headers |-> headers, params |-> params,
     data |-> data, files |-> files]

\* variant: 500 itself is not taken for a server error
ServerError_above_500(code) == code > 500 /\ code <= 599

ServerError(code) == code >= 500 /\ code <= 599

\* variant: every exception of the Transport is raised again as it is
Network_reraising(srv, req) ==
    [sent |-> <<req>>,
     out |->
        IF srv.kind = "exception"
        THEN Raise(Foreign(srv.exc))
        ELSE IF ServerError(srv.code)
        THEN Raise(Foreign("HTTPError"))
        ELSE Return([type |-> ResponseType(srv.header), code |-> srv.code,
                     data |-> srv.content])]

\* self.network(...) and what _call_network makes of its answer
Network(srv, req) ==
    [sent |-> <<req>>,
     out |->
        IF srv.kind = "exception"
        THEN IF srv.exc \in RequestExceptions
             THEN Raise(CloudFlareAPIErrorChain(JNum(0), JStr(srv.exc), JNull))
             ELSE Raise(Foreign(srv.exc))
        ELSE IF ServerError(srv.code)
        THEN \* response.raise_for_status()
             Raise(Foreign("HTTPError"))
        ELSE Return([type |-> ResponseType(srv.header), code |-> srv.code,
                     data |-> srv.content])]

\* variant: the first identifier is asked for only when data goes with a GET
NeedsFirstIdentifier_get_data(method, parts, data) == data.t # "null" /\ method = "GET"

\* the URL has identifiers[0] between parts[0] and parts[1]
NeedsFirstIdentifier(method, parts, data) ==
    parts[2] # None \/ (data.t # "null" /\ method = "GET")

\* returns [out, sent]: out is the triple (type, code, data) or the error
\* raised, sent the requests handed to the Transport
_call_network(srv, method, headers, parts, identifiers, params, data, files) ==
    IF method = None \/ parts[1] = None
    THEN [out |-> Raise(CloudFlareInternalError(0, "You must specify a method and endpoint")),
          sent |-> <<>>]
    ELSE IF NeedsFirstIdentifier(method, parts, data) /\ identifiers[1] = None
    THEN [out |-> Raise(CloudFlareAPIError(0, "You must specify first identifier")),
          sent |-> <<>>]
    ELSE IF parts[2] = None /\ data.t # "null" /\ method = "GET"
    THEN \* the URL concatenates parts[1], which is None
         [out |-> Raise(Foreign("TypeError")), sent |-> <<>>]
    ELSE IF Truthy(files) /\ Truthy(data) /\ data.t # "dict"
    THEN \* data[d] for d in data, on a string
         [out |-> Raise(Foreign("TypeError")), sent |-> <<>>]
    ELSE
    Network(srv,
            IF Truthy(files) /\ Truthy(data)
            THEN Request(method, BuildUrl(method, parts, identifiers, data), headers, params,
                         JNull, JList(MergeFiles(files, data)))
            ELSE Request(method, BuildUrl(method, parts, identifiers, data), headers, params,
                         data, files))

----------------------------------------------------------------------------
(* _v4base._raw: the response normaliser *)

\* json.loads of a body: its value when the body is the text of one JSON
\* value, ValueError otherwise (an empty body, several lines, no JSON)
json_loads(body) ==
    IF Len(body) = 1 /\ body[1].json THEN Return(body[1].val)
    ELSE Raise(Foreign("ValueError"))

requests_codes_ok == 200

Envelope(success, result) ==
    JDict(Put(One("success", JBool(success)), "result", result))

\* {'success': True, 'result': r} at 200, else
\* {'success': False, 'code': response_code, 'result': r}
ByStatus(response_code, result) ==
    IF response_code = requests_codes_ok
    THEN Envelope(TRUE, result)
    ELSE JDict(Put(Envelope(FALSE, result).d, "code", JNum(response_code)))

NormalizeJson(response_code, body) ==
    LET parsed == json_loads(body)
    IN  IF parsed.ok
        THEN IF parsed.val.t # "dict"
             THEN Return(Envelope(TRUE, parsed.val))
             ELSE Return(parsed.val)
        ELSE IF Len(body) = 0
        THEN Return(ByStatus(response_code, JNull))
        ELSE IF \A i \in 1..Len(body) : json_loads(<<body[i]>>).ok
        THEN \* NDJSON: the list of the lines' values
             Return(JList([i \in 1..Len(body) |-> json_loads(<<body[i]>>).val]))
        ELSE Raise(CloudFlareAPIError(0, "JSON parse failed - report to Cloudflare."))

\* application/octet-stream, whose content is bytes
NormalizeOctets(response_code, body) ==
    LET parsed == json_loads(body)
    IN  IF parsed.ok
        THEN IF parsed.val.t # "dict" \/ "success" \notin DOMAIN parsed.val.d
             THEN Return(ByStatus(response_code, parsed.val))
             ELSE Return(parsed.val)
        ELSE Return(ByStatus(response_code, Text(body, FALSE)))

NormalizeText(response_code, body) ==
    LET parsed == json_loads(body)
    IN  IF parsed.ok
        THEN IF parsed.val.t # "dict"
             THEN Return(Envelope(TRUE, parsed.val))
             ELSE Return(parsed.val)
        ELSE Return(ByStatus(response_code, Text(body, FALSE)))

Normalize(response_type, response_code, body) ==
    IF response_type = "application/json" THEN NormalizeJson(response_code, body)
    ELSE IF response_type = "application/octet-stream"
    THEN NormalizeOctets(response_code, body)
    ELSE IF response_type = "text/plain" THEN NormalizeText(response_code, body)
    ELSE \* text/javascript, application/javascript, text/html and anything else
         Return(ByStatus(response_code, Text(body, TRUE)))

\* _raw after _call_network returned or raised
RawOf(net) ==
    IF ~net.out.ok
    THEN [out |-> net.out, sent |-> net.sent, stages |-> <<>>]
    ELSE [out |-> Normalize(net.out.val.type, net.out.val.code, net.out.val.data),
          sent |-> net.sent, stages |-> <<"normalize">>]

\* returns [out, sent, stages]
_raw(srv, method, headers, parts, identifiers, params, data, files) ==
    RawOf(_call_network(srv, method, headers, parts, identifiers, params, data, files))

----------------------------------------------------------------------------
(* _v4base._call: success-field sanitisation, ApiError, unwrapping *)

\* Python's "k in v" for a dict (a key) and for a list (an element)
In(k, v) ==
    IF v.t = "dict" THEN k \in DOMAIN v.d
    ELSE \E i \in 1..Len(v.items) : v.items[i].t = "str" /\ v.items[i].s = k

IsFalse(v) == v.t = "bool" /\ ~v.b

\* str() of a value; the model's locations are strings, numbers or null
PyStr(v) ==
    CASE v.t = "str" -> v.s
      [] v.t = "null" -> "None"
      [] v.t = "bool" -> IF v.b THEN "True" ELSE "False"
      [] v.t = "num" -> ToString(v.n)
      [] OTHER -> "<repr>"

RECURSIVE JoinPath(_)
JoinPath(q) ==
    IF Len(q) = 0 THEN ""
    ELSE IF Len(q) = 1 THEN q[1].s
    ELSE q[1].s \o ">" \o JoinPath(Tail(q))

\* response_data['errors'][0][field], or nothing when any step fails
FirstErrorHas(errors, field) ==
    /\ errors.t = "list"
    /\ Len(errors.items) > 0
    /\ errors.items[1].t = "dict"
    /\ field \in DOMAIN errors.items[1].d
FirstErrorField(errors, field) == errors.items[1].d[field]

\* variant: the message of the first error alone
ComposedMessage_message_only(errors) ==
    IF FirstErrorHas(errors, "message")
    THEN Return(FirstErrorField(errors, "message"))
    ELSE Return(JStr(""))

ComposedMessage(errors) ==
    LET message == IF FirstErrorHas(errors, "message")
                   THEN FirstErrorField(errors, "message") ELSE JStr("")
        location == IF FirstErrorHas(errors, "location")
                    THEN PyStr(FirstErrorField(errors, "location")) ELSE ""
        p == IF FirstErrorHas(errors, "path") THEN FirstErrorField(errors, "path") ELSE JNull
        path == IF p.t = "list" /\ \A i \in 1..Len(p.items) : p.items[i].t = "str"
                THEN JoinPath(p.items) ELSE ""
    IN  IF message.t # "str"
        THEN Raise(Foreign("TypeError"))
        ELSE Return(JStr(message.s \o " - " \o location \o " - " \o path))

\* 'errors' replaced by one entry with the composed message, success False
Collapse(v, m) ==
    IF ~m.ok THEN m
    ELSE Return(JDict(Put(Put(v.d, "errors",
                 JList(<<JDict(Put(One("code", JNum(99999)), "message", m.val))>>)),
                 "success", JBool(FALSE))))

\* variant: a response with neither errors nor result is failed without an
\* errors list
Sanitize_no_errors_entry(v) ==
    IF In("success", v) THEN Return(v)
    ELSE IF v.t # "dict" THEN Raise(Foreign("TypeError"))
    ELSE IF "errors" \in DOMAIN v.d
    THEN IF v.d["errors"].t = "null"
         THEN Return(JDict(Put(v.d, "success", JBool(TRUE))))
         ELSE Collapse(v, ComposedMessage(v.d["errors"]))
    ELSE IF "result" \notin DOMAIN v.d
    THEN Return(JDict(Put(v.d, "success", JBool(FALSE))))
    ELSE Return(JDict(Put(v.d, "success", JBool(TRUE))))

\* variant: null errors are taken for a failure
Sanitize_null_errors_fail(v) ==
    IF In("success", v) THEN Return(v)
    ELSE IF v.t # "dict" THEN Raise(Foreign("TypeError"))
    ELSE IF "errors" \in DOMAIN v.d
    THEN IF v.d["errors"].t = "null"
         THEN Return(JDict(Put(v.d, "success", JBool(FALSE))))
         ELSE Collapse(v, ComposedMessage(v.d["errors"]))
    ELSE IF "result" \notin DOMAIN v.d
    THEN Return(JDict(Put(Put(v.d, "errors", JList(<<v>>)), "success", JBool(FALSE))))
    ELSE Return(JDict(Put(v.d, "success", JBool(TRUE))))

\* the sanitisation of a response that has no 'success'.  In the code the
\* entry appended in the /certificates case is the response dict itself; the
\* model holds the dict as it was before 'errors' and 'success' were set,
\* which has the same code, message, error and error_chain.
Sanitize(v) ==
    IF In("success", v) THEN Return(v)
    ELSE IF v.t # "dict" THEN Raise(Foreign("TypeError"))
    ELSE IF "errors" \in DOMAIN v.d
    THEN IF v.d["errors"].t = "null"
         THEN Return(JDict(Put(v.d, "success", JBool(TRUE))))
         ELSE Collapse(v, ComposedMessage(v.d["errors"]))
    ELSE IF "result" \notin DOMAIN v.d
    THEN Return(JDict(Put(Put(v.d, "errors", JList(<<v>>)), "success", JBool(FALSE))))
    ELSE Return(JDict(Put(v.d, "success", JBool(TRUE))))

\* variant: the code of an error without one is 99999
ApiErrorOf_code_99999(v) ==
    IF "errors" \in DOMAIN v.d /\ v.d["errors"].t # "null"
       /\ (v.d["errors"].t # "list" \/ v.d["errors"].items = <<>>)
    THEN Foreign("IndexError")
    ELSE
    LET errors == IF "errors" \in DOMAIN v.d /\ v.d["errors"].t # "null"
                  THEN v.d["errors"].items[1] ELSE JDict(EmptyDict)
        code == IF "code" \in DOMAIN errors.d THEN errors.d["code"] ELSE JNum(99999)
        message == IF "message" \in DOMAIN errors.d THEN errors.d["message"]
                   ELSE IF "error" \in DOMAIN errors.d THEN errors.d["error"]
                   ELSE JStr("")
    IN  IF "error_chain" \in DOMAIN errors.d
        THEN CloudFlareAPIErrorChain(code, message, errors.d["error_chain"])
        ELSE CloudFlareAPIErrorChain(code, message, JNull)

\* variant: the message is read from 'message' alone
ApiErrorOf_message_alone(v) ==
    IF "errors" \in DOMAIN v.d /\ v.d["errors"].t # "null"
       /\ (v.d["errors"].t # "list" \/ v.d["errors"].items = <<>>)
    THEN Foreign("IndexError")
    ELSE
    LET errors == IF "errors" \in DOMAIN v.d /\ v.d["errors"].t # "null"
                  THEN v.d["errors"].items[1] ELSE JDict(EmptyDict)
        code == IF "code" \in DOMAIN errors.d THEN errors.d["code"] ELSE JNum(99998)
        message == IF "message" \in DOMAIN errors.d THEN errors.d["message"]
                   ELSE JStr("")
    IN  IF "error_chain" \in DOMAIN errors.d
        THEN CloudFlareAPIErrorChain(code, message, errors.d["error_chain"])
        ELSE CloudFlareAPIErrorChain(code, message, JNull)

\* the error raised for a response whose success is False; the model's
\* 'errors' values are null or lists of dicts
ApiErrorOf(v) ==
    IF "errors" \in DOMAIN v.d /\ v.d["errors"].t # "null"
       /\ (v.d["errors"].t # "list" \/ v.d["errors"].items = <<>>)
    THEN IF v.d["errors"].t = "list" THEN Foreign("IndexError")
         ELSE IF v.d["errors"].t = "dict" THEN Foreign("KeyError")
         ELSE Foreign("TypeError")
    ELSE
    LET errors == IF "errors" \in DOMAIN v.d /\ v.d["errors"].t # "null"
                  THEN v.d["errors"].items[1] ELSE JDict(EmptyDict)
    IN  IF errors.t # "dict" THEN Foreign("TypeError")
        ELSE
        LET code == IF "code" \in DOMAIN errors.d THEN errors.d["code"] ELSE JNum(99998)
            message == IF "message" \in DOMAIN errors.d THEN errors.d["message"]
                       ELSE IF "error" \in DOMAIN errors.d THEN errors.d["error"]
                       ELSE JStr("")
        IN  IF "error_chain" \in DOMAIN errors.d
            THEN CloudFlareAPIErrorChain(code, message, errors.d["error_chain"])
            ELSE CloudFlareAPIErrorChain(code, message, JNull)

\* variant: raw mode returns the whole response
Unwrap_whole_response(israw, v) ==
    IF israw THEN v
    ELSE IF "result" \in DOMAIN v.d THEN v.d["result"] ELSE v

\* what _call returns for a response whose success is not False
Unwrap(israw, v) ==
    LET result == IF "result" \in DOMAIN v.d THEN v.d["result"] ELSE v
    IN  IF israw
        THEN IF "result_info" \in DOMAIN v.d
             THEN JDict(Put(One("result", result), "result_info", v.d["result_info"]))
             ELSE JDict(One("result", result))
        ELSE result

\* variant: a response whose success is False is returned like any other
Finish_returning(israw, r, s) ==
    [sent |-> r.sent,
     stages |-> r.stages \o <<"sanitize">>,
     data |-> IF s.ok THEN s.val ELSE r.out.val,
     out |->
        IF ~s.ok THEN s
        ELSE IF s.val.t # "dict"
        THEN Raise(Foreign("TypeError"))
        ELSE Return(Unwrap(israw, s.val))]

\* returns [out, sent, stages, data]: data is response_data as it stands when
\* the call ends (null when there is none)
\* _call after the sanitisation s of what _raw returned
Finish(israw, r, s) ==
    [sent |-> r.sent,
     stages |-> r.stages \o <<"sanitize">>,
     data |-> IF s.ok THEN s.val ELSE r.out.val,
     out |->
        IF ~s.ok THEN s
        ELSE IF s.val.t # "dict"
        THEN \* response_data['success'] on a list
             Raise(Foreign("TypeError"))
        ELSE IF IsFalse(s.val.d["success"])
        THEN Raise(ApiErrorOf(s.val))
        ELSE Return(Unwrap(israw, s.val))]

\* _call after _raw returned or raised
CallOf(israw, r) ==
    IF ~r.out.ok
    THEN [out |-> r.out, sent |-> r.sent, stages |-> r.stages, data |-> JNull]
    ELSE Finish(israw, r, Sanitize(r.out.val))

_call(israw, srv, method, headers, parts, identifiers, params, data, files) ==
    CallOf(israw, _raw(srv, method, headers, parts, identifiers, params, data, files))

UnwrappedOf(r) ==
    [out |-> r.out, sent |-> r.sent, stages |-> r.stages,
     data |-> IF r.out.ok THEN r.out.val ELSE JNull]

_call_unwrapped(srv, method, headers, parts, identifiers, params, data, files) ==
    UnwrappedOf(_raw(srv, method, headers, parts, identifiers, params, data, files))

----------------------------------------------------------------------------
(* _v4base.do_*: the headers of each policy, then the call *)

NoRun(out) == [out |-> out, sent |-> <<>>, stages |-> <<>>, data |-> JNull]

\* variant: files give the Content-Type multipart/form-data
ContentHeaders_multipart(headers, data, files) ==
    IF Truthy(files) THEN Put(headers, "Content-Type", "multipart/form-data")
    ELSE IF data.t = "str" THEN Put(headers, "Content-Type", "application/javascript")
    ELSE headers

\* the Content-Type of do_auth and do_auth_unwrapped: javascript for a string
\* body, and no Content-Type at all when files are attached
ContentHeaders(headers, data, files) ==
    LET h == IF data.t = "str"
             THEN Put(headers, "Content-Type", "application/javascript")
             ELSE headers
    IN  IF Truthy(files) THEN Del(h, "Content-Type") ELSE h

\* variant: the credentials are sent when the configuration resolves to some
do_no_auth_with_credentials(israw, cfg, srv, method, parts, identifiers, params, data, files) ==
    _call(israw, srv, method,
          IF _add_auth_headers(cfg, _add_headers(EmptyDict), method).ok
          THEN _add_auth_headers(cfg, _add_headers(EmptyDict), method).val
          ELSE _add_headers(EmptyDict),
          parts, identifiers, params, data, files)

do_no_auth(israw, cfg, srv, method, parts, identifiers, params, data, files) ==
    _call(israw, srv, method, _add_headers(EmptyDict), parts, identifiers, params, data, files)

\* do_auth once _add_auth_headers returned or raised
AuthCall(auth, israw, srv, method, parts, identifiers, params, data, files) ==
    IF ~auth.ok THEN NoRun(auth)
    ELSE _call(israw, srv, method, ContentHeaders(auth.val, data, files),
               parts, identifiers, params, data, files)

do_auth(israw, cfg, srv, method, parts, identifiers, params, data, files) ==
    AuthCall(_add_auth_headers(cfg, _add_headers(EmptyDict), method),
             israw, srv, method, parts, identifiers, params, data, files)

AuthCallUnwrapped(auth, srv, method, parts, identifiers, params, data, files) ==
    IF ~auth.ok THEN NoRun(auth)
    ELSE _call_unwrapped(srv, method, ContentHeaders(auth.val, data, files),
                         parts, identifiers, params, data, files)

do_auth_unwrapped(israw, cfg, srv, method, parts, identifiers, params, data, files) ==
    AuthCallUnwrapped(_add_auth_headers(cfg, _add_headers(EmptyDict), method),
                      srv, method, parts, identifiers, params, data, files)

CertCall(auth, israw, srv, method, parts, identifiers, params, data, files) ==
    IF ~auth.ok THEN NoRun(auth)
    ELSE _call(israw, srv, method, auth.val, parts, identifiers, params, data, files)

do_certauth(israw, cfg, srv, method, parts, identifiers, params, data, files) ==
    CertCall(_add_certtoken_headers(cfg, _add_headers(EmptyDict), method),
             israw, srv, method, parts, identifiers, params, data, files)

----------------------------------------------------------------------------
(* the endpoint nodes: _add_unused, _add_no_auth, _add_with_auth,          *)
(* _add_with_auth_unwrapped, _add_with_cert_auth                           *)

Verbs == {"get", "patch", "post", "put", "delete"}

\* the method name a verb passes to do_*
MethodOf(verb) ==
    CASE verb = "get" -> "GET"
      [] verb = "patch" -> "PATCH"
      [] verb = "post" -> "POST"
      [] verb = "put" -> "PUT"
      [] verb = "delete" -> "DELETE"

_add_unused(verb) == NoRun(Raise(CloudFlareAPIError(0, "not found")))


\* variant: every verb of an OPEN node is forwarded
_add_no_auth_any_verb(israw, cfg, srv, verb, parts, identifiers, params, data, files) ==
    do_no_auth(israw, cfg, srv, MethodOf(verb), parts, identifiers, params, data, files)

_add_no_auth(israw, cfg, srv, verb, parts, identifiers, params, data, files) ==
    IF verb = "get"
    THEN do_no_auth(israw, cfg, srv, "GET", parts, identifiers, params, data, JNull)
    ELSE NoRun(Raise(CloudFlareAPIError(0, verb \o "() call not available for this endpoint")))

_add_with_auth(israw, cfg, srv, verb, parts, identifiers, params, data, files) ==
    do_auth(israw, cfg, srv, MethodOf(verb), parts, identifiers, params, data,
            IF verb = "post" THEN files ELSE JNull)

_add_with_auth_unwrapped(israw, cfg, srv, verb, parts, identifiers, params, data, files) ==
    do_auth_unwrapped(israw, cfg, srv, MethodOf(verb), parts, identifiers, params, data,
                      IF verb = "post" THEN files ELSE JNull)

_add_with_cert_auth(israw, cfg, srv, verb, parts, identifiers, params, data, files) ==
    do_certauth(israw, cfg, srv, MethodOf(verb), parts, identifiers, params, data,
                IF verb = "post" THEN files ELSE JNull)

\* a verb of a node, by the class add() made the node of
NodeVerb(israw, cfg, srv, node, verb, identifiers, params, data, files) ==
    CASE node.t = "VOID" -> _add_unused(verb)
      [] node.t = "OPEN" ->
            _add_no_auth(israw, cfg, srv, verb, node.parts, identifiers, params, data, files)
      [] node.t = "AUTH" ->
            _add_with_auth(israw, cfg, srv, verb, node.parts, identifiers, params, data, files)
      [] node.t = "AUTH_UNWRAPPED" ->
            _add_with_auth_unwrapped(israw, cfg, srv, verb, node.parts, identifiers, params,
                                     data, files)
      [] node.t = "CERT" ->
            _add_with_cert_auth(israw, cfg, srv, verb, node.parts, identifiers, params,
                                data, files)

----------------------------------------------------------------------------
(* the bounded sets Init and the verbs draw from *)

MaxOverrides == 1   \* '<field>.<method>' entries in a configuration
MaxLines == 2       \* lines of a response body

CredFields == {"email", "key", "token"}

\* the value a configuration gives a field: generic, or for one method
GenericValue(field) ==
    CASE field = "email" -> "E"
      [] field = "key" -> "K"
      [] field = "token" -> "T"
      [] field = "certtoken" -> "C"
MethodSpecific(field) == GenericValue(field) \o "m"

\* the field of a '<field>.<method>' key
OverrideKeys == {<<f, f \o "." \o Lower(m)>> : f \in CredFields, m \in Methods}

\* the generic entries: each field absent or set
GenericConfigs ==
    UNION { {g \in [S -> {"E", "K", "T"}] : \A f \in S : g[f] = GenericValue(f)} :
            S \in SUBSET CredFields }

\* the generic entries, a field being absent, None (__init__ turns an empty
\* string of the configuration into None) or set
NoneConfigs ==
    UNION { {g \in [S -> {None, "E", "K", "T"}] :
                \A f \in S : g[f] \in {None, GenericValue(f)}} : S \in SUBSET CredFields }

RECURSIVE WithOverrides(_, _)
WithOverrides(cfgs, n) ==
    IF n = 0 THEN cfgs
    ELSE LET prev == WithOverrides(cfgs, n - 1)
         IN  prev \cup { Put(c, k[2], v) : c \in prev, k \in OverrideKeys,
                                           v \in {None, "Em", "Km", "Tm"} }

\* configurations: generic entries and at most MaxOverrides per-method entries,
\* each None or the field's method-specific value
Configs ==
    NoneConfigs \cup
    { c \in WithOverrides(GenericConfigs, MaxOverrides) :
        \A k \in OverrideKeys :
            k[2] \in DOMAIN c => c[k[2]] \in {None, MethodSpecific(k[1])} }

\* configurations of the certtoken: the generic entry absent, None or set, and
\* at most MaxOverrides per-method entries, each None or method-specific
RECURSIVE CertOverrides(_)
CertOverrides(n) ==
    IF n = 0 THEN {EmptyDict, One("certtoken", None), One("certtoken", "C")}
    ELSE LET prev == CertOverrides(n - 1)
         IN  prev \cup { Put(c, "certtoken." \o Lower(m), v) :
                            c \in prev, m \in Methods, v \in {None, MethodSpecific("certtoken")} }
CertConfigs == CertOverrides(MaxOverrides)

\* a configuration with a token and a certtoken
TokenConfigs == { Put(One("token", "T"), "certtoken", "C") }

\* endpoint nodes, by attribute path
Node(t, parts) == [t |-> t, parts |-> parts]
NodeAt(p) ==
    CASE p = <<"ips">> -> Node("OPEN", <<"ips", None, None, None, None>>)
      [] p = <<"zones">> -> Node("AUTH", <<"zones", None, None, None, None>>)
      [] p = <<"zones", "logs", "received">> ->
            Node("AUTH_UNWRAPPED", <<"zones", "logs/received", None, None, None>>)
      [] p = <<"certificates">> -> Node("CERT", <<"certificates", None, None, None, None>>)
      [] p = <<"zones", "logs">> -> Node("VOID", <<"zones", "logs", None, None, None>>)
      [] p = <<"zones", "dns_records">> ->
            Node("AUTH", <<"zones", "dns_records", None, None, None>>)
      [] p = <<"accounts", "rulesets", "versions">> ->
            Node("AUTH", <<"accounts", "rulesets", "versions", None, None>>)
      [] p = <<"accounts", "rulesets", "versions", "by_tag">> ->
            Node("AUTH", <<"accounts", "rulesets", "versions", "by_tag", None>>)
      [] p = <<"accounts", "rulesets", "versions", "by_tag", "rules">> ->
            Node("AUTH", <<"accounts", "rulesets", "versions", "by_tag", "rules">>)
TreeOf(paths) == [p \in paths |-> NodeAt(p)]
Tree1 == TreeOf({<<"ips">>, <<"zones">>, <<"zones", "logs", "received">>,
                 <<"certificates">>})
TreeAuth == TreeOf({<<"ips">>, <<"zones">>, <<"zones", "logs", "received">>,
                    <<"certificates">>})
\* nodes of one to five path segments
TreeUrl == TreeOf({<<"zones">>, <<"zones", "dns_records">>,
                   <<"accounts", "rulesets", "versions">>,
                   <<"accounts", "rulesets", "versions", "by_tag">>,
                   <<"accounts", "rulesets", "versions", "by_tag", "rules">>})
TreeVerb == TreeOf({<<"ips">>, <<"zones", "logs">>})

\* JSON values of response bodies
ErrorEntries ==
    { JDict(Put(One("code", JNum(1000)), "message", JStr("bad request"))),
      JDict(Put(Put(One("code", JNum(1001)), "message", JStr("chained")),
                "error_chain", JList(<<JDict(Put(One("code", JNum(1002)), "message", JStr("cause")))>>))),
      JDict(Put(Put(One("message", JStr("syntax")), "location", JStr("1:2")),
                "path", JList(<<JStr("viewer"), JStr("zones")>>))) }
ErrorsValues == {JNull, JList(<<>>)} \cup { JList(<<e>>) : e \in ErrorEntries }
ResultValue == JDict(One("a", JNum(1)))
ResultInfo == JDict(One("page", JNum(1)))

Optional(key, values) == {EmptyDict} \cup { One(key, v) : v \in values }
Merge(f, g) == [k \in (DOMAIN f) \cup (DOMAIN g) |-> IF k \in DOMAIN f THEN f[k] ELSE g[k]]

BodyDicts ==
    { JDict(Merge(Merge(a, b), Merge(c, d))) :
        a \in Optional("success", {JBool(TRUE), JBool(FALSE)}),
        b \in Optional("errors", ErrorsValues),
        c \in Optional("result", {ResultValue}),
        d \in Optional("result_info", {ResultInfo}) }
    \cup { JDict(Put(One("code", JNum(7003)), "message", JStr("no route"))),
           JDict(One("error", JStr("denied"))) }
BodyValues == BodyDicts \cup { JList(<<JNum(1)>>), JStr("success") }

NdLines == { JsonLine(JDict(One("a", JNum(1)))), JsonLine(JDict(One("a", JNum(2)))),
             GarbageLine }
RECURSIVE SeqsOf(_, _)
SeqsOf(S, n) ==
    IF n = 0 THEN {<<>>}
    ELSE { Append(q, x) : q \in SeqsOf(S, n - 1), x \in S }

\* bodies: empty, one line (any value of the model, or no JSON), several lines
Bodies ==
    {<<>>, <<GarbageLine>>} \cup { <<JsonLine(v)>> : v \in BodyValues }
    \cup UNION { SeqsOf(NdLines, n) : n \in 2..MaxLines }

Headers ==
    { <<>>, <<"application/json">>, <<"application/json", "charset=utf-8">>,
      <<"application/octet-stream">>, <<"text/plain">>, <<"text/javascript">>,
      <<"text/html">>, <<"image/png">> }
StatusCodes == {200, 404, 499, 500, 503, 599}

Response(header, code, content) ==
    [kind |-> "response", header |-> header, code |-> code, content |-> content,
     exc |-> None]
TransportException(exc) ==
    [kind |-> "exception", header |-> <<>>, code |-> 0, content |-> <<>>, exc |-> exc]

\* a few bodies: empty, no JSON, an envelope, success false without errors,
\* errors null, a result alone, two NDJSON lines
FewBodies ==
    { <<>>, <<GarbageLine>>,
      <<JsonLine(Envelope(TRUE, ResultValue))>>,
      <<JsonLine(JDict(One("success", JBool(FALSE))))>>,
      <<JsonLine(JDict(One("errors", JNull)))>>,
      <<JsonLine(JDict(One("result", ResultValue)))>>,
      <<JsonLine(JDict(One("a", JNum(1)))), JsonLine(JDict(One("a", JNum(2))))>> }

\* the Transport's answers: every body as application/json at 200 and 404,
\* the few bodies under every header and status code, and the exceptions
Replies ==
    { Response(<<"application/json">>, c, b) : c \in {200, 404}, b \in Bodies }
    \cup { Response(h, c, b) : h \in Headers, c \in StatusCodes, b \in FewBodies }
    \cup { TransportException(e) : e \in RequestExceptions \cup {"OSError"} }

OkReply == Response(<<"application/json">>, 200, <<JsonLine(Envelope(TRUE, ResultValue))>>)

\* the arguments the verbs draw from
Args(identifiers, params, data, files) ==
    [identifiers |-> identifiers, params |-> params, data |-> data, files |-> files]
OneId == {<<"z1", None, None, None>>}
\* identifier1..identifier4, each supplied or not
IdNames == <<"i1", "i2", "i3", "i4">>
IdSubsets == { [i \in 1..4 |-> IF i \in S THEN IdNames[i] ELSE None] : S \in SUBSET (1..4) }
\* identifier1..identifier4, the first n of them supplied
IdPrefixes == { [i \in 1..4 |-> IF i <= n THEN "i" ELSE None] : n \in 0..4 }
DataValues == {JNull, JDict(One("name", JStr("n"))), JStr("script")}
FilesValues == {JNull, JDict(One("file", "f.txt"))}
ParamsValues == {JNull, JDict(One("page", JNum(2)))}

----------------------------------------------------------------------------
(* the state machine: a client after construction, and its verb calls *)

NoCall == [verb |-> None, path |-> <<>>, identifiers |-> <<>>, params |-> JNull,
           data |-> JNull, files |-> JNull]

InitWith(configs, raws, trees, replies) ==
    /\ config \in configs
    /\ raw \in raws
    /\ tree \in trees
    /\ server \in replies
    /\ lastcall = NoCall
    /\ sent = <<>>
    /\ stages = <<>>
    /\ response_data = JNull
    /\ outcome = Return(JNull)
    /\ table = {}
    /\ added = {}

\* the call ends: what it sent, ran and gave back
Ends(r) ==
    /\ sent' = r.sent
    /\ stages' = r.stages
    /\ response_data' = r.data
    /\ outcome' = r.out

\* node.<verb>(identifier1..4, params, data[, files]); called is the verb as
\* the caller wrote it ("call" for node(...))
Invoke(called, verb, path, identifiers, params, data, files) ==
    /\ lastcall' = [verb |-> called, path |-> path, identifiers |-> identifiers,
                    params |-> params, data |-> data, files |-> files]
    /\ Ends(NodeVerb(raw, config, server, tree[path], verb, identifiers, params,
                     data, files))
    /\ UNCHANGED <<config, raw, tree, server, table, added>>

Get(A) ==
    \E path \in DOMAIN tree, identifiers \in A.identifiers, params \in A.params,
       data \in A.data :
        Invoke("get", "get", path, identifiers, params, data, JNull)
Patch(A) ==
    \E path \in DOMAIN tree, identifiers \in A.identifiers, params \in A.params,
       data \in A.data :
        Invoke("patch", "patch", path, identifiers, params, data, JNull)
Post(A) ==
    \E path \in DOMAIN tree, identifiers \in A.identifiers, params \in A.params,
       data \in A.data, files \in A.files :
        Invoke("post", "post", path, identifiers, params, data, files)
Put_(A) ==
    \E path \in DOMAIN tree, identifiers \in A.identifiers, params \in A.params,
       data \in A.data :
        Invoke("put", "put", path, identifiers, params, data, JNull)
Delete(A) ==
    \E path \in DOMAIN tree, identifiers \in A.identifiers, params \in A.params,
       data \in A.data :
        Invoke("delete", "delete", path, identifiers, params, data, JNull)
\* __call__: the same as get()
CallNode(A) ==
    \E path \in DOMAIN tree, identifiers \in A.identifiers, params \in A.params,
       data \in A.data :
        Invoke("call", "get", path, identifiers, params, data, JNull)

NextWith(A) == Get(A) \/ Patch(A) \/ Post(A) \/ Put_(A) \/ Delete(A) \/ CallNode(A)

\* responses: every answer of the Transport, a client whose calls reach it
Init == InitWith(TokenConfigs, BOOLEAN, {Tree1}, Replies)
Next == NextWith(Args(OneId, {JNull}, {JNull}, {JNull}))
Spec == Init /\ [][Next]_vars

\* credentials: every configuration, one answer of the Transport
InitAuth == InitWith(Configs \cup CertConfigs, {FALSE}, {TreeAuth}, {OkReply})
NextAuth == NextWith(Args(OneId, {JNull}, {JNull}, {JNull}))
SpecAuth == InitAuth /\ [][NextAuth]_vars

\* verbs: every argument of a verb, on the nodes that refuse verbs
VerbConfigs ==
    { EmptyDict, One("token", "T"), Put(One("token", "T"), "key", "K"), One("email", "E") }
InitVerb == InitWith(VerbConfigs, {FALSE}, {TreeVerb}, {OkReply})
NextVerb == NextWith(Args(IdPrefixes, ParamsValues, DataValues, FilesValues))
SpecVerb == InitVerb /\ [][NextVerb]_vars

\* URLs: nodes of one to five segments, every choice of identifiers
InitUrl == InitWith(TokenConfigs, {FALSE}, {TreeUrl}, {OkReply})
NextUrl == NextWith(Args(IdSubsets, {JNull}, {JNull, JDict(One("name", JStr("n")))}, {JNull}))
SpecUrl == InitUrl /\ [][NextUrl]_vars

\* requests: a node of each policy that sends, every body and files, and a
\* Transport that answers, fails or reports a server error
RequestReplies ==
    { OkReply, Response(<<"application/json">>, 500, <<>>),
      Response(<<"application/json">>, 503, <<JsonLine(Envelope(TRUE, ResultValue))>>) }
    \cup { TransportException(e) : e \in RequestExceptions \cup {"OSError"} }
InitRequest == InitWith(TokenConfigs, {FALSE}, {Tree1}, RequestReplies)
NextRequest ==
    NextWith(Args({<<None, None, None, None>>, <<"z1", None, None, None>>}, {JNull},
                  DataValues, FilesValues))
SpecRequest == InitRequest /\ [][NextRequest]_vars

----------------------------------------------------------------------------
(* CloudFlare.add and CloudFlare.api_list.  Path segments and attribute names
   are sequences of characters, so that split and replace work on them; an
   absent segment (None) is the empty sequence, which add() and __str__ test
   for truth like an empty string. *)

NoPart == <<>>
Has(c, name) == \E i \in 1..Len(name) : name[i] = c

\* str.replace('-', '_')
ReplaceDash(name) == [i \in 1..Len(name) |-> IF name[i] = "-" THEN "_" ELSE name[i]]

\* str.split('/')
RECURSIVE Split(_)
Split(p) ==
    IF ~Has("/", p) THEN <<p>>
    ELSE LET k == CHOOSE i \in 1..Len(p) : p[i] = "/" /\ \A j \in 1..(i - 1) : p[j] # "/"
         IN  <<SubSeq(p, 1, k - 1)>> \o Split(SubSeq(p, k + 1, Len(p)))

\* the list a: the components of the segments that are there
Pieces(p) == IF p # NoPart THEN Split(p) ELSE <<>>
Components(parts) ==
    Pieces(parts[1]) \o Pieces(parts[2]) \o Pieces(parts[3]) \o Pieces(parts[4])
    \o Pieces(parts[5])

\* keyword.iskeyword, on some of Python's keywords
kwlist == { <<"a", "s">>, <<"i", "f">>, <<"i", "n">>, <<"i", "s">>, <<"o", "r">> }
iskeyword(name) == name \in kwlist

VerbNames ==
    { <<"g", "e", "t">>, <<"p", "u", "t">>, <<"p", "o", "s", "t">>,
      <<"p", "a", "t", "c", "h">>, <<"d", "e", "l", "e", "t", "e">> }
NodeTypes == {"VOID", "OPEN", "AUTH", "AUTH_UNWRAPPED", "CERT"}

\* what an attribute lookup gives: the client (path <<>>) or a node, by its
\* attribute path, or a bound method of a node
Object(path) == [kind |-> "object", path |-> path]
BoundMethod == [kind |-> "method", path |-> <<>>]
NoBranch == [kind |-> "none", path |-> <<>>]

\* getattr(branch, n): a child set by add(), a verb of a node class, or
\* AttributeError (the names of the model are no other attribute of the client,
\* of a node or of a method)
getattr(tr, branch, n) ==
    IF branch.kind = "object" /\ Append(branch.path, n) \in DOMAIN tr
    THEN Return(Object(Append(branch.path, n)))
    ELSE IF branch.kind = "object" /\ branch.path # <<>> /\ n \in VerbNames
    THEN Return(BoundMethod)
    ELSE Raise(Foreign("AttributeError"))

\* the walk down a[0:-1]: the branch reached, or none
RECURSIVE Walk(_, _, _)
WalkOn(tr, found, elements) ==
    IF ~found.ok THEN NoBranch ELSE Walk(tr, found.val, elements)
Walk(tr, branch, elements) ==
    IF elements = <<>> THEN branch
    ELSE WalkOn(tr,
                getattr(tr, branch,
                        IF Has("-", Head(elements)) THEN ReplaceDash(Head(elements))
                        ELSE Head(elements)),
                Tail(elements))

\* the attribute name of the final component
AttrName(name) ==
    IF iskeyword(name) THEN Append(name, "_")
    ELSE IF Has("-", name) THEN ReplaceDash(name)
    ELSE name

SetAttr(tr, path, node) ==
    [q \in (DOMAIN tr) \cup {path} |-> IF q = path THEN node ELSE tr[q]]

\* variant: a name that is taken is set again
AddAt_overwriting(tr, t, parts, branch, name) ==
    IF branch.kind # "object"
    THEN [out |-> Raise(CloudFlareAPIError(0, "api load: element missing when adding path")),
          tree |-> tr]
    ELSE [out |-> Return(JNull),
          tree |-> SetAttr(tr, Append(branch.path, name), Node(t, parts))]

\* variant: a name that is taken is set before the duplicate is reported
AddAt_set_then_raise(tr, t, parts, branch, name) ==
    IF branch.kind = "none"
    THEN [out |-> Raise(CloudFlareAPIError(0, "api load: element missing when adding path")),
          tree |-> tr]
    ELSE IF getattr(tr, branch, name).ok
    THEN [out |-> Raise(CloudFlareAPIError(0, "api load: duplicate name found")),
          tree |-> IF branch.kind = "object"
                   THEN SetAttr(tr, Append(branch.path, name), Node(t, parts))
                   ELSE tr]
    ELSE IF t \notin NodeTypes
    THEN [out |-> Raise(CloudFlareAPIError(0, "api load type mismatch")), tree |-> tr]
    ELSE IF branch.kind = "method"
    THEN [out |-> Raise(Foreign("AttributeError")), tree |-> tr]
    ELSE [out |-> Return(JNull),
          tree |-> SetAttr(tr, Append(branch.path, name), Node(t, parts))]

\* add() once the walk ended at branch; returns [out, tree]
AddAt(tr, t, parts, branch, name) ==
    IF branch.kind = "none"
    THEN [out |-> Raise(CloudFlareAPIError(0, "api load: element missing when adding path")),
          tree |-> tr]
    ELSE IF getattr(tr, branch, name).ok
    THEN [out |-> Raise(CloudFlareAPIError(0, "api load: duplicate name found")),
          tree |-> tr]
    ELSE IF t \notin NodeTypes
    THEN [out |-> Raise(CloudFlareAPIError(0, "api load type mismatch")), tree |-> tr]
    ELSE IF branch.kind = "method"
    THEN \* setattr on a bound method
         [out |-> Raise(Foreign("AttributeError")), tree |-> tr]
    ELSE [out |-> Return(JNull),
          tree |-> SetAttr(tr, Append(branch.path, name), Node(t, parts))]

AddComponents(tr, t, parts, a) ==
    AddAt(tr, t, parts, Walk(tr, Object(<<>>), SubSeq(a, 1, Len(a) - 1)),
          AttrName(a[Len(a)]))

add(tr, t, parts) == AddComponents(tr, t, parts, Components(parts))

\* the order of sorted(): by character, '_' before the lower-case letters
Alphabet == <<"_", "a", "b", "c", "d", "e", "g", "i", "s", "t", "v", "x">>
Rank(c) == CHOOSE i \in 1..Len(Alphabet) : Alphabet[i] = c
RECURSIVE Less(_, _)
Less(m, n) ==
    IF m = <<>> THEN n # <<>>
    ELSE IF n = <<>> THEN FALSE
    ELSE IF Head(m) = Head(n) THEN Less(Tail(m), Tail(n))
    ELSE Rank(Head(m)) < Rank(Head(n))
RECURSIVE Sorted(_)
Sorted(names) ==
    IF names = {} THEN <<>>
    ELSE LET first == CHOOSE m \in names : \A n \in names \ {m} : Less(m, n)
         IN  <<first>> \o Sorted(names \ {first})

\* str(node)[1:-1]: '/' and the segments that are there joined by '/:id/'
RECURSIVE JoinId(_)
JoinId(segments) ==
    IF segments = <<>> THEN <<>>
    ELSE IF Len(segments) = 1 THEN segments[1]
    ELSE segments[1] \o <<"/", ":", "i", "d", "/">> \o JoinId(Tail(segments))
PathString(parts) == <<"/">> \o JoinId(SelectSeq(parts, LAMBDA x : x # NoPart))

\* variant: names that start with '_' are gone into
Listed_with_underscores(tr, path) ==
    { q[Len(q)] : q \in { r \in DOMAIN tr :
                            /\ Len(r) = Len(path) + 1
                            /\ SubSeq(r, 1, Len(path)) = path
                            /\ r[Len(r)] \notin VerbNames } }

\* the names dir() gives that _api_list goes into: the children set by add()
\* whose name neither starts with '_' nor is a verb
Listed(tr, path) ==
    { q[Len(q)] : q \in { r \in DOMAIN tr :
                            /\ Len(r) = Len(path) + 1
                            /\ SubSeq(r, 1, Len(path)) = path
                            /\ r[Len(r)][1] # "_"
                            /\ r[Len(r)] \notin VerbNames } }

\* the path string of every node but the VOID ones, then the node's subtree
RECURSIVE _api_list(_, _)
RECURSIVE ListNames(_, _, _)
ListNames(tr, path, names) ==
    IF names = <<>> THEN <<>>
    ELSE (IF tr[Append(path, Head(names))].t # "VOID"
          THEN <<PathString(tr[Append(path, Head(names))].parts)>> ELSE <<>>)
         \o _api_list(tr, Append(path, Head(names)))
         \o ListNames(tr, path, Tail(names))
_api_list(tr, path) == ListNames(tr, path, Sorted(Listed(tr, path)))

api_list(tr) == _api_list(tr, <<>>)

\* the tables: entries (type, p1, p2), in sets that nest, collide, use
\* keywords and names of verbs
Entry(t, p1, p2) == [t |-> t, parts |-> <<p1, p2, NoPart, NoPart, NoPart>>]
NestedTable ==
    { Entry("AUTH", <<"a">>, NoPart), Entry("CERT", <<"a">>, <<"b">>),
      Entry("AUTH_UNWRAPPED", <<"a", "/", "b">>, <<"c">>),
      Entry("OPEN", <<"a", "-", "b">>, NoPart),
      Entry("AUTH", <<"a", "-", "b">>, <<"c", "-", "d">>) }
CollidingTable ==
    { Entry("OPEN", <<"a", "-", "b">>, NoPart), Entry("VOID", <<"a", "_", "b">>, NoPart),
      Entry("AUTH", <<"i", "s">>, NoPart), Entry("OPEN", <<"i", "s", "_">>, NoPart),
      Entry("AUTH", <<"a">>, NoPart), Entry("CERT", <<"a">>, NoPart) }
KeywordTable ==
    { Entry("AUTH", <<"i", "s">>, NoPart), Entry("AUTH", <<"i", "s">>, <<"c">>),
      Entry("VOID", <<"v">>, NoPart), Entry("AUTH", <<"v">>, <<"c">>),
      Entry("AUTH", <<"_", "x">>, NoPart), Entry("OPEN", <<"_", "x">>, <<"c">>) }
VerbTable ==
    { Entry("AUTH", <<"g", "e", "t">>, NoPart), Entry("AUTH", <<"a">>, NoPart),
      Entry("AUTH", <<"a">>, <<"g", "e", "t">>),
      Entry("AUTH", <<"a">>, <<"g", "e", "t", "/", "x">>),
      Entry("BAD", <<"b">>, NoPart) }
Tables == {NestedTable, CollidingTable, KeywordTable, VerbTable}

\* the client as __init__ leaves it before the table is loaded
InitTree ==
    /\ config \in TokenConfigs
    /\ raw = FALSE
    /\ tree = <<>>
    /\ server = OkReply
    /\ lastcall = NoCall
    /\ sent = <<>>
    /\ stages = <<>>
    /\ response_data = JNull
    /\ outcome = Return(JNull)
    /\ table \in Tables
    /\ added = {}

AddEnds(e, r) ==
    /\ tree' = r.tree
    /\ outcome' = r.out
    /\ added' = IF r.out.ok THEN added \cup {e} ELSE added
    /\ lastcall' = [verb |-> "add", entry |-> e]

\* self.add(t, p1, p2, ...) for an entry of the table not added yet
Add ==
    \E e \in table \ added :
        /\ AddEnds(e, add(tree, e.t, e.parts))
        /\ UNCHANGED <<config, raw, server, sent, stages, response_data, table>>

ApiList ==
    /\ outcome' = Return(api_list(tree))
    /\ lastcall' = [verb |-> "api_list"]
    /\ UNCHANGED <<config, raw, tree, server, sent, stages, response_data, table, added>>

NextTree == Add \/ ApiList
SpecTree == InitTree /\ [][NextTree]_vars

----------------------------------------------------------------------------
(* the last call, as the claims read it *)

Called == lastcall.verb # None
Policy == tree[lastcall.path].t
\* the HTTP method of the last call (node(...) is a get)
Method == IF lastcall.verb = "call" THEN "GET" ELSE MethodOf(lastcall.verb)
\* the policies whose verbs go through _call
CallPolicies == {"OPEN", "AUTH", "CERT"}
AuthPolicies == {"AUTH", "AUTH_UNWRAPPED"}

\* the credential triple the configuration resolves to for the last call
Email == MethodValue(config, "email", Method, api_email(config))
Key == MethodValue(config, "key", Method, api_key(config))
Token == MethodValue(config, "token", Method, api_token(config))
NoCredential == Email = None /\ Key = None /\ Token = None
KeyAndToken == Key # None /\ Token # None
EmailAlone == Email # None /\ Key = None /\ Token = None
BadCredentials == NoCredential \/ KeyAndToken \/ EmailAlone

AuthHeaderNames == {"Authorization", "X-Auth-Email", "X-Auth-Key", "X-Auth-User-Service-Key"}
AuthPart(headers) == [k \in (DOMAIN headers) \cap AuthHeaderNames |-> headers[k]]

\* the Transport answered the last call with a response of a status below 500
Answered ==
    /\ Called
    /\ Len(sent) = 1
    /\ server.kind = "response"
    /\ ~(server.code >= 500 /\ server.code <= 599)
DeclaredJson ==
    server.header \in {<<"application/json">>, <<"application/json", "charset=utf-8">>}

----------------------------------------------------------------------------
(* C1..C3: credentials and verbs *)

\* C1: with a configuration that resolves to no credential, to a key and a
\* token, or to an email alone, a verb call on an endpoint of an authenticated
\* policy raises the authentication error and hands no request to the Transport.
C1_BadCredentialsFailBeforeNetwork ==
    (Called /\ Policy \in AuthPolicies /\ BadCredentials) =>
        /\ ~outcome.ok
        /\ outcome.exc.type = "CloudFlareAPIError"
        /\ outcome.exc.code = JNum(0)
        /\ outcome.exc.message =
              IF NoCredential THEN JStr("neither email/key or token defined")
              ELSE IF KeyAndToken THEN JStr("confused info - both key and token defined")
              ELSE JStr("email defined however neither key or token defined")
        /\ sent = <<>>

\* a call whose method-specific key meets the generic token
C1_Witness ==
    /\ Called /\ Policy = "AUTH" /\ KeyAndToken
    /\ "token" \in DOMAIN config /\ "key" \notin DOMAIN config
    /\ ~outcome.ok /\ sent = <<>>

\* C2: a credential triple that passes the checks gives exactly the headers of
\* its one case: token or key without email as a Bearer Authorization, email
\* with key or with token as X-Auth-Email and X-Auth-Key; the 'coding issue'
\* error is never raised.
C2_AuthHeadersByCase ==
    (Called /\ Policy \in AuthPolicies /\ ~BadCredentials) =>
        /\ Cardinality({ c \in 1..4 :
                CASE c = 1 -> Email = None /\ Token # None
                  [] c = 2 -> Email = None /\ Key # None
                  [] c = 3 -> Email # None /\ Key # None
                  [] c = 4 -> Email # None /\ Token # None }) = 1
        /\ Len(sent) = 1
        /\ AuthPart(sent[1].headers) =
              IF Email = None /\ Token # None THEN One("Authorization", "Bearer " \o Token)
              ELSE IF Email = None /\ Key # None THEN One("Authorization", "Bearer " \o Key)
              ELSE IF Email # None /\ Key # None
              THEN Put(One("X-Auth-Email", Email), "X-Auth-Key", Key)
              ELSE Put(One("X-Auth-Email", Email), "X-Auth-Key", Token)
        /\ (~outcome.ok => outcome.exc.type # "CloudFlareInternalError")

\* an email with a method-specific token
C2_Witness ==
    /\ Called /\ Policy = "AUTH_UNWRAPPED" /\ Email = "E" /\ Token = "Tm" /\ Key = None
    /\ Len(sent) = 1
    /\ sent[1].headers["X-Auth-Key"] = "Tm"

\* C3: patch, post, put and delete on an OPEN node, and every verb (the node
\* called itself included) on a VOID node, raise an error and hand no request
\* to the Transport, whatever the arguments and the credentials.
C3_RefusedVerbsSendNothing ==
    (Called /\ (Policy = "VOID"
                \/ (Policy = "OPEN" /\ lastcall.verb \in {"patch", "post", "put", "delete"}))) =>
        /\ ~outcome.ok
        /\ outcome.exc.type = "CloudFlareAPIError"
        /\ sent = <<>>
        /\ stages = <<>>

\* a post with identifiers, a body and files on an OPEN node of a client that
\* has a token
C3_Witness ==
    /\ Called /\ Policy = "OPEN" /\ lastcall.verb = "post"
    /\ lastcall.identifiers[1] # None /\ Truthy(lastcall.data) /\ Truthy(lastcall.files)
    /\ Token # None
    /\ ~outcome.ok /\ sent = <<>>

----------------------------------------------------------------------------
(* C4..C10: the response *)

\* the last call went through _call's sanitisation and left a response that
\* has a success field
Sanitized ==
    /\ Answered
    /\ Policy \in CallPolicies
    /\ stages = <<"normalize", "sanitize">>
    /\ response_data.t = "dict"
    /\ "success" \in DOMAIN response_data.d
Failed == Sanitized /\ IsFalse(response_data.d["success"])
\* what the normaliser made of the Transport's response
Normalized == Normalize(ResponseType(server.header), server.code, server.content)
\* the entry the error of a failed response is read from
HasFirstError ==
    /\ "errors" \in DOMAIN response_data.d
    /\ response_data.d["errors"].t = "list"
    /\ response_data.d["errors"].items # <<>>
FirstError == response_data.d["errors"].items[1].d
IsApiError(code, message, chain) ==
    /\ ~outcome.ok
    /\ outcome.exc.type = "CloudFlareAPIError"
    /\ outcome.exc.code = code
    /\ outcome.exc.message = message
    /\ outcome.exc.error_chain = chain

\* C4: a response whose status code is in 500..599 ends the call with the
\* Transport's HTTP error; the normaliser and the sanitisation do not run and
\* no response is kept or returned.
C4_ServerErrorPassesThrough ==
    (Called /\ Len(sent) = 1 /\ server.kind = "response" /\ server.code \in 500..599) =>
        /\ ~outcome.ok
        /\ outcome.exc.type = "HTTPError"
        /\ stages = <<>>
        /\ response_data = JNull

\* status 500 with a body that says success
C4_Witness ==
    /\ Called /\ Len(sent) = 1 /\ server.kind = "response" /\ server.code = 500
    /\ server.content = <<JsonLine(Envelope(TRUE, ResultValue))>>
    /\ ~outcome.ok

\* C5 as stated: on every endpoint, a response below 500 whose success is false
\* makes the call raise CloudFlareAPIError and return nothing.
C5_AsStated ==
    (Answered /\ response_data.t = "dict" /\ "success" \in DOMAIN response_data.d
              /\ IsFalse(response_data.d["success"])) =>
        /\ ~outcome.ok
        /\ outcome.exc.type = "CloudFlareAPIError"

\* C5: on an endpoint whose verbs go through _call, a response below 500 whose
\* success is false after the sanitisation makes the call raise and return
\* nothing: CloudFlareAPIError with the code, message and chain of the first
\* entry of errors (99998 and '' when there is no entry to read), IndexError
\* when errors is an empty list.  A result is returned only when success is not
\* false.  An AUTH_UNWRAPPED endpoint returns the normalised response as it is,
\* success false or not.
C5_FailedResponseRaises ==
    /\ Failed =>
          IF HasFirstError
          THEN IsApiError(
                 IF "code" \in DOMAIN FirstError THEN FirstError["code"] ELSE JNum(99998),
                 IF "message" \in DOMAIN FirstError THEN FirstError["message"]
                 ELSE IF "error" \in DOMAIN FirstError THEN FirstError["error"]
                 ELSE JStr(""),
                 IF "error_chain" \in DOMAIN FirstError THEN FirstError["error_chain"]
                 ELSE JNull)
          ELSE IF "errors" \in DOMAIN response_data.d /\ response_data.d["errors"] # JNull
          THEN ~outcome.ok /\ outcome.exc.type = "IndexError"
          ELSE IsApiError(JNum(99998), JStr(""), JNull)
    /\ (Sanitized /\ outcome.ok) => ~IsFalse(response_data.d["success"])
    /\ (Answered /\ Policy = "AUTH_UNWRAPPED" /\ stages = <<"normalize">>
          /\ response_data # JNull) => outcome = Return(response_data)

\* status 404 with success false and a first error that has a chain
C5_Witness ==
    /\ Failed /\ server.code = 404 /\ HasFirstError
    /\ "error_chain" \in DOMAIN FirstError
    /\ IsApiError(JNum(1001), JStr("chained"), FirstError["error_chain"])

\* C6 as stated: after the sanitisation a response whose success is false has
\* a non-empty errors list.
C6_AsStated == Failed => HasFirstError

\* C6: when the sanitisation itself sets success to false (the normalised
\* response had no success field) the response gets an errors list of one
\* entry; a response that comes out of the normaliser with success false, the
\* one made for an empty body at a status other than 200 included, keeps the
\* errors it had, which may be none or an empty list.
C6_SanitisedFailureHasErrors ==
    Failed =>
        IF "success" \in DOMAIN Normalized.val.d
        THEN response_data = Normalized.val
        ELSE HasFirstError /\ Len(response_data.d["errors"].items) = 1

\* a body with neither success, errors nor result: the sanitisation fails it
C6_Witness ==
    /\ Failed
    /\ server.content = <<JsonLine(JDict(One("error", JStr("denied"))))>>
    /\ HasFirstError
    /\ ~outcome.ok

ErrorsNullBody == <<JsonLine(JDict(One("errors", JNull)))>>
DecodedTypes == {<<"application/json">>, <<"application/json", "charset=utf-8">>,
                 <<"text/plain">>, <<"application/octet-stream">>, <<>>}
OctetTypes == {<<"application/octet-stream">>, <<>>}

\* C7 as stated: a body that decodes to {"errors": null} ends with success true
\* and the call returns, at every status below 500.
C7_AsStated ==
    (Answered /\ Policy \in CallPolicies /\ server.header \in DecodedTypes
              /\ server.content = ErrorsNullBody) =>
        /\ outcome.ok
        /\ response_data.d["success"] = JBool(TRUE)

\* C7: on the _call flow a body {"errors": null} declared application/json or
\* text/plain gets success true from the sanitisation and the call returns
\* it, at every status below 500.  Declared application/octet-stream, or with
\* no Content-Type, the normaliser wraps it by the status first: at 200 the
\* call returns it, at another status success is false and the call raises
\* CloudFlareAPIError 99998.
C7_ErrorsNullByContentType ==
    (Answered /\ Policy \in CallPolicies /\ server.header \in DecodedTypes
              /\ server.content = ErrorsNullBody) =>
        IF server.header \notin OctetTypes
        THEN /\ response_data = JDict(Put(One("errors", JNull), "success", JBool(TRUE)))
             /\ outcome = Return(IF raw THEN JDict(One("result", response_data))
                                 ELSE response_data)
        ELSE IF server.code = 200
        THEN /\ response_data = Envelope(TRUE, JDict(One("errors", JNull)))
             /\ outcome = Return(IF raw THEN JDict(One("result", JDict(One("errors", JNull))))
                                 ELSE JDict(One("errors", JNull)))
        ELSE /\ IsFalse(response_data.d["success"])
             /\ IsApiError(JNum(99998), JStr(""), JNull)

\* {"errors": null} as text/plain at status 404
C7_Witness ==
    /\ Answered /\ Policy \in CallPolicies
    /\ server.header = <<"text/plain">> /\ server.code = 404
    /\ server.content = ErrorsNullBody
    /\ outcome.ok

\* the values of the lines of the Transport's body
LineValues == JList([i \in 1..Len(server.content) |-> server.content[i].val])

\* C8 as stated: an application/json body of several lines, each a JSON
\* document, gives the call a result that is the sequence of the lines' values;
\* the call does not fail.
C8_AsStated ==
    (Answered /\ DeclaredJson /\ Len(server.content) >= 2
              /\ \A i \in 1..Len(server.content) : server.content[i].json) =>
        /\ outcome.ok
        /\ outcome.val \in {LineValues, JDict(One("result", LineValues))}

\* C9: an empty application/json body at status 200 makes the call return a
\* null result; at another status below 500 the normalised response is
\* {success: false, code: status, result: null} and a non-raw call through _call
\* raises CloudFlareAPIError 99998.
C9_EmptyJsonBody ==
    (Answered /\ DeclaredJson /\ server.content = <<>>) =>
        IF server.code = 200
        THEN /\ response_data = Envelope(TRUE, JNull)
             /\ outcome = Return(IF Policy = "AUTH_UNWRAPPED" THEN Envelope(TRUE, JNull)
                                 ELSE IF raw THEN JDict(One("result", JNull))
                                 ELSE JNull)
        ELSE /\ response_data = JDict(Put(Put(One("success", JBool(FALSE)),
                                              "code", JNum(server.code)), "result", JNull))
             /\ (Policy \in CallPolicies /\ ~raw) => IsApiError(JNum(99998), JStr(""), JNull)

\* an empty body at 404 on a non-raw client
C9_Witness ==
    /\ Answered /\ DeclaredJson /\ server.content = <<>> /\ server.code = 404
    /\ Policy = "AUTH" /\ ~raw
    /\ ~outcome.ok /\ outcome.exc.code = JNum(99998)

\* the Transport answered 200 with an application/json envelope of success true
SuccessEnvelope ==
    /\ Answered /\ DeclaredJson /\ server.code = 200
    /\ Len(server.content) = 1 /\ server.content[1].json
    /\ server.content[1].val.t = "dict"
    /\ "success" \in DOMAIN server.content[1].val.d
    /\ server.content[1].val.d["success"] = JBool(TRUE)
    /\ "result" \in DOMAIN server.content[1].val.d
Body == server.content[1].val.d

\* C10 as stated: in raw mode the call returns the envelope, success field
\* and result (and result_info when the body has one).
C10_AsStated ==
    (SuccessEnvelope /\ Policy \in CallPolicies /\ raw) =>
        /\ outcome.ok
        /\ "success" \in DOMAIN outcome.val.d
        /\ outcome.val.d["result"] = Body["result"]

\* C10: for a 200 envelope {success: true, result: R} a call through _call
\* returns exactly R in default mode; in raw mode it returns {result: R}, with
\* result_info when the body has one and without the success field.
C10_ResultOrRawResult ==
    (SuccessEnvelope /\ Policy \in CallPolicies) =>
        IF ~raw
        THEN outcome = Return(Body["result"])
        ELSE outcome = Return(JDict(
                 IF "result_info" \in DOMAIN Body
                 THEN Put(One("result", Body["result"]), "result_info", Body["result_info"])
                 ELSE One("result", Body["result"])))

\* a raw call whose body has a result_info
C10_Witness ==
    /\ SuccessEnvelope /\ Policy \in CallPolicies /\ raw
    /\ "result_info" \in DOMAIN Body
    /\ outcome.ok
    /\ DOMAIN outcome.val.d = {"result", "result_info"}

----------------------------------------------------------------------------
(* C11..C12: identifiers and requests *)

\* the path segments of the node of the last call
Parts == tree[lastcall.path].parts
MissingIdentifier ==
    /\ ~outcome.ok
    /\ outcome.exc.type = "CloudFlareAPIError"
    /\ outcome.exc.message = JStr("You must specify first identifier")
    /\ sent = <<>>

\* C11 as stated: a call on a node whose 2nd segment is present without
\* identifier1, or whose 4th segment is present without identifier3, fails and
\* sends nothing.
C11_AsStated ==
    (Called /\ ((Parts[2] # None /\ lastcall.identifiers[1] = None)
                \/ (Parts[4] # None /\ lastcall.identifiers[3] = None))) =>
        /\ ~outcome.ok
        /\ sent = <<>>

\* C11: a permitted verb call with resolved credentials on a node whose 2nd
\* segment is present fails without identifier1 ('You must specify first
\* identifier') and sends nothing; identifier3 is never required: with the 4th
\* segment present, identifier1 supplied and identifier3 omitted, the request
\* is sent, its URL going from the 3rd segment straight to the 4th.
C11_FirstIdentifierOnly ==
    /\ (Called /\ Policy = "AUTH" /\ Parts[2] # None /\ lastcall.identifiers[1] = None)
          => MissingIdentifier
    /\ (Called /\ Policy = "AUTH" /\ Parts[4] # None /\ lastcall.identifiers[1] # None
               /\ lastcall.identifiers[3] = None) =>
          /\ outcome.ok
          /\ Len(sent) = 1
          /\ sent[1].url =
                "https://api.cloudflare.com/client/v4/" \o Parts[1] \o "/"
                \o lastcall.identifiers[1] \o "/" \o Parts[2]
                \o (IF lastcall.identifiers[2] # None
                    THEN "/" \o lastcall.identifiers[2] ELSE "")
                \o "/" \o Parts[3] \o "/" \o Parts[4]
                \o (IF lastcall.identifiers[4] # None
                    THEN "/" \o lastcall.identifiers[4] ELSE "")
                \o (IF Parts[5] # None THEN "/" \o Parts[5] ELSE "")

\* a node of four segments called with identifier2 alone
C11_Witness ==
    /\ Called /\ Parts[4] # None /\ Parts[5] = None
    /\ lastcall.identifiers = <<None, "i2", None, None>>
    /\ MissingIdentifier

\* the verb of the last call is one its node's policy forwards
Permitted ==
    /\ Policy # "VOID"
    /\ Policy = "OPEN" => lastcall.verb \in {"get", "call"}
CredentialsResolve ==
    /\ Policy \in AuthPolicies => ~BadCredentials
    /\ Policy = "CERT" => MethodValue(config, "certtoken", Method, api_certtoken(config)) # None
IdentifierCheckPasses ==
    ~(lastcall.identifiers[1] = None
      /\ (Parts[2] # None \/ (lastcall.data # JNull /\ Method = "GET")))

\* C12 as stated: a verb call hands the Transport at most one request, and
\* exactly one when the verb is permitted, the credentials resolve and the
\* identifier check passes; after a 5xx response or a failure of the Transport
\* the call ends with an error and no second request.
C12_AsStated ==
    Called =>
        /\ Len(sent) <= 1
        /\ (Permitted /\ CredentialsResolve /\ IdentifierCheckPasses) => Len(sent) = 1
        /\ (Len(sent) = 1 /\ (server.kind = "exception" \/ server.code \in 500..599))
              => ~outcome.ok

----------------------------------------------------------------------------
(* C15..C17: credentials per method, Transport errors, headers *)

\* the '<field>.<method>' key of the last call and the value the
\* configuration holds for the field: the entry of that key when there is one,
\* else the generic entry, else None
MethodKey(field) ==
    field \o "." \o (IF lastcall.verb = "call" THEN "get" ELSE lastcall.verb)
Held(field) ==
    IF MethodKey(field) \in DOMAIN config THEN config[MethodKey(field)]
    ELSE IF field \in DOMAIN config THEN config[field]
    ELSE None
HeldBad ==
    \/ Held("email") = None /\ Held("key") = None /\ Held("token") = None
    \/ Held("key") # None /\ Held("token") # None
    \/ Held("email") # None /\ Held("key") = None /\ Held("token") = None

\* C15: the value a call uses for email, key, token and certtoken is the entry
\* '<field>.<method>' of the configuration when it holds one, whatever the
\* generic value, and the generic value otherwise: the checks and the headers of
\* the call are those of these values.
C15_MethodEntryBeforeGeneric ==
    /\ (Called /\ Policy \in AuthPolicies) =>
          IF HeldBad
          THEN ~outcome.ok /\ sent = <<>>
          ELSE /\ Len(sent) = 1
               /\ AuthPart(sent[1].headers) =
                     IF Held("email") = None
                     THEN One("Authorization",
                              "Bearer " \o (IF Held("token") # None THEN Held("token")
                                            ELSE Held("key")))
                     ELSE Put(One("X-Auth-Email", Held("email")), "X-Auth-Key",
                              IF Held("key") # None THEN Held("key") ELSE Held("token"))
    /\ (Called /\ Policy = "CERT") =>
          IF Held("certtoken") = None
          THEN /\ ~outcome.ok /\ sent = <<>>
               /\ outcome.exc.message = JStr("no cert token defined")
          ELSE /\ Len(sent) = 1
               /\ AuthPart(sent[1].headers) =
                     One("X-Auth-User-Service-Key", Held("certtoken"))

\* a certtoken for patch beside the generic one, and a patch
C15_Witness ==
    /\ Called /\ Policy = "CERT" /\ lastcall.verb = "patch"
    /\ "certtoken" \in DOMAIN config /\ config["certtoken"] = "C"
    /\ "certtoken.patch" \in DOMAIN config /\ config["certtoken.patch"] = "Cm"
    /\ Len(sent) = 1
    /\ sent[1].headers["X-Auth-User-Service-Key"] = "Cm"

\* C16 as stated: the error of a failed Transport call, or of a 5xx status,
\* reaches the caller as the Transport raised it.
C16_AsStated ==
    (Called /\ Len(sent) = 1) =>
        /\ server.kind = "exception" => (~outcome.ok /\ outcome.exc.type = server.exc)
        /\ (server.kind = "response" /\ server.code \in 500..599) =>
              (~outcome.ok /\ outcome.exc.type = "HTTPError")

\* C16: an exception of the requests family raised by the Transport
\* (RequestException, ConnectionError, Timeout) reaches the caller as a new
\* CloudFlareAPIError of code 0 whose message is the exception; any other
\* exception of the Transport reaches the caller as it was raised, and a 5xx
\* status reaches it as the HTTP error of the response.
C16_RequestsErrorsWrapped ==
    (Called /\ Len(sent) = 1) =>
        /\ (server.kind = "exception"
              /\ server.exc \in {"RequestException", "ConnectionError", "Timeout"}) =>
              IsApiError(JNum(0), JStr(server.exc), JNull)
        /\ (server.kind = "exception"
              /\ server.exc \notin {"RequestException", "ConnectionError", "Timeout"}) =>
              (~outcome.ok /\ outcome.exc.type = server.exc)
        /\ (server.kind = "response" /\ server.code \in 500..599) =>
              (~outcome.ok /\ outcome.exc.type = "HTTPError")

\* a timeout of the Transport
C16_Witness ==
    /\ Called /\ Len(sent) = 1
    /\ server.kind = "exception" /\ server.exc = "Timeout"
    /\ ~outcome.ok /\ outcome.exc.type = "CloudFlareAPIError"

\* C17 as stated: every request carries User-Agent and a Content-Type:
\* multipart/form-data with files, application/javascript with a string body,
\* application/json otherwise, whatever the policy of the node.
C17_AsStated ==
    (Called /\ Len(sent) = 1) =>
        /\ "User-Agent" \in DOMAIN sent[1].headers
        /\ "Content-Type" \in DOMAIN sent[1].headers
        /\ sent[1].headers["Content-Type"] =
              IF lastcall.files # JNull THEN "multipart/form-data"
              ELSE IF lastcall.data.t = "str" THEN "application/javascript"
              ELSE "application/json"

\* C17: every request carries User-Agent.  On AUTH and AUTH_UNWRAPPED nodes
\* the Content-Type is application/json, application/javascript when the body
\* is a string, and is left out of the headers when files are attached; on
\* OPEN and CERT nodes it is application/json whatever the body and the files.
C17_ContentTypeByPolicy ==
    (Called /\ Len(sent) = 1) =>
        /\ "User-Agent" \in DOMAIN sent[1].headers
        /\ IF Policy \in AuthPolicies
           THEN IF lastcall.files # JNull
                THEN "Content-Type" \notin DOMAIN sent[1].headers
                ELSE /\ "Content-Type" \in DOMAIN sent[1].headers
                     /\ sent[1].headers["Content-Type"] =
                           IF lastcall.data.t = "str" THEN "application/javascript"
                           ELSE "application/json"
           ELSE /\ "Content-Type" \in DOMAIN sent[1].headers
                /\ sent[1].headers["Content-Type"] = "application/json"

\* a post with files on an AUTH node
C17_Witness ==
    /\ Called /\ Len(sent) = 1 /\ Policy = "AUTH"
    /\ lastcall.verb = "post" /\ lastcall.files # JNull
    /\ DOMAIN sent[1].headers = {"User-Agent", "Authorization"}

----------------------------------------------------------------------------
(* C19..C20: the URL, the collapsed errors *)

\* segment k is in the URL when it and the segments before it are present,
\* identifier k when segment k is in the URL and the identifier was supplied
SegmentIn(k) == \A j \in 1..k : Parts[j] # None
UrlSegment(k) == IF SegmentIn(k) THEN "/" \o Parts[k] ELSE ""
UrlIdentifier(k) ==
    IF SegmentIn(k) /\ lastcall.identifiers[k] # None
    THEN "/" \o lastcall.identifiers[k] ELSE ""

HasErrors ==
    /\ Answered /\ Policy \in CallPolicies
    /\ Normalized.ok /\ Normalized.val.t = "dict"
    /\ "errors" \in DOMAIN Normalized.val.d
    /\ Normalized.val.d["errors"] # JNull
GivenErrors == Normalized.val.d["errors"]
GivenHas(field) ==
    /\ GivenErrors.t = "list" /\ GivenErrors.items # <<>>
    /\ field \in DOMAIN GivenErrors.items[1].d
\* message - location - path of the first error, '' for what it lacks
Composed ==
    (IF GivenHas("message") THEN GivenErrors.items[1].d["message"].s ELSE "")
    \o " - " \o (IF GivenHas("location") THEN GivenErrors.items[1].d["location"].s ELSE "")
    \o " - " \o (IF GivenHas("path") THEN JoinPath(GivenErrors.items[1].d["path"].items) ELSE "")
Collapsed ==
    /\ response_data.t = "dict"
    /\ response_data.d["success"] = JBool(FALSE)
    /\ response_data.d["errors"] =
          JList(<<JDict(Put(One("code", JNum(99999)), "message", JStr(Composed)))>>)
    /\ IsApiError(JNum(99999), JStr(Composed), JNull)

\* C20 as stated: whenever the decoded body has a non-null errors, the
\* sanitisation sets success false and puts the one composed entry in errors,
\* and the call raises CloudFlareAPIError with the composed message.
C20_AsStated == HasErrors => Collapsed

\* C20: when the normalised response has no success field and a non-null
\* errors, the sanitisation sets success false and replaces errors by one entry
\* of code 99999 whose message is 'message - location - path' of the first
\* error, '' standing for each part the first error lacks, and the call raises
\* CloudFlareAPIError 99999 with that message.  A response that has a success
\* field keeps its errors and its success.
C20_ErrorsCollapsedWithoutSuccess ==
    HasErrors =>
        IF "success" \notin DOMAIN Normalized.val.d
        THEN Collapsed
        ELSE response_data = Normalized.val

\* a first error with a message, a location and a path
C20_Witness ==
    /\ HasErrors /\ "success" \notin DOMAIN Normalized.val.d
    /\ GivenHas("path")
    /\ IsApiError(JNum(99999), JStr("syntax - 1:2 - viewer>zones"), JNull)

----------------------------------------------------------------------------
(* C13, C14, C18: the endpoint tree *)

Range(q) == { q[i] : i \in 1..Len(q) }
\* the name the spec's rule gives a component: dashes to underscores, a
\* keyword gets '_' appended
CleanName(name) == IF iskeyword(name) THEN Append(name, "_") ELSE ReplaceDash(name)
\* the place of an entry in the tree by that rule, and the places above it
CleanPath(e) ==
    [i \in 1..Len(Components(e.parts)) |-> CleanName(Components(e.parts)[i])]
Above(e) == { SubSeq(CleanPath(e), 1, k) : k \in 1..(Len(CleanPath(e)) - 1) }
AddRaised(message) ==
    /\ ~outcome.ok
    /\ outcome.exc.type = "CloudFlareAPIError"
    /\ outcome.exc.message = JStr(message)

\* C13 as stated: add() of an entry of a valid policy, none of whose names is
\* a verb, raises the duplicate error when its place is taken, the
\* missing-element error when a place above it has no node, and otherwise
\* attaches the node of the entry's policy at its place.
C13_AsStated ==
    (/\ lastcall.verb = "add"
     /\ lastcall.entry.t \in NodeTypes
     /\ Range(Components(lastcall.entry.parts)) \cap VerbNames = {}) =>
        IF lastcall.entry \notin added /\ CleanPath(lastcall.entry) \in DOMAIN tree
        THEN AddRaised("api load: duplicate name found")
        ELSE IF \E q \in Above(lastcall.entry) : q \notin DOMAIN tree
        THEN AddRaised("api load: element missing when adding path")
        ELSE /\ outcome.ok
             /\ lastcall.entry \in added
             /\ CleanPath(lastcall.entry) \in DOMAIN tree
             /\ tree[CleanPath(lastcall.entry)] =
                   Node(lastcall.entry.t, lastcall.entry.parts)

\* the tree holds the entries added, each at its place
TreeOfAdded ==
    /\ DOMAIN tree = { CleanPath(e) : e \in added }
    /\ \A e \in added : tree[CleanPath(e)] = Node(e.t, e.parts)

\* a table whose entries have valid policies, distinct places and plain names,
\* and that holds an entry for every place above one of its entries
WellFormed(entries) ==
    /\ \A e \in entries :
          /\ e.t \in NodeTypes
          /\ \A i \in 1..Len(Components(e.parts)) :
                Components(e.parts)[i] \notin kwlist \cup VerbNames
          /\ \A q \in Above(e) : \E f \in entries : CleanPath(f) = q
    /\ \A e, f \in entries : CleanPath(e) = CleanPath(f) => e = f

\* C14 as stated: a well-formed table builds the same tree in whatever order
\* its entries are added: every add succeeds and the tree holds what was added.
C14_AsStated ==
    (WellFormed(table) /\ lastcall.verb = "add") => (outcome.ok /\ TreeOfAdded)

\* C14: the tree is determined by the set of entries whose add() returned,
\* child names, policy and segments of every node, whatever the order they
\* were added in and on every build; an entry whose add() raised is not in it.
C14_TreeDeterminedByAdded ==
    /\ TreeOfAdded
    /\ (lastcall.verb = "add" /\ ~outcome.ok) => lastcall.entry \notin added

\* the nested table, all of it added
C14_Witness ==
    /\ table = NestedTable /\ added = table
    /\ Cardinality(DOMAIN tree) = 5
    /\ <<<<"a">>, <<"b">>, <<"c">>>> \in DOMAIN tree

\* the nodes api_list reports: not VOID, and no name on the way to them that
\* starts with '_' or is a verb
Reported ==
    { q \in DOMAIN tree :
        /\ tree[q].t # "VOID"
        /\ \A i \in 1..Len(q) : q[i][1] # "_" /\ q[i] \notin VerbNames }

\* C18 as stated: api_list() returns the path string of every node of the
\* tree, one for each.
C18_AsStated ==
    lastcall.verb = "api_list" =>
        /\ Range(outcome.val) = { PathString(tree[q].parts) : q \in DOMAIN tree }
        /\ Len(outcome.val) = Cardinality(DOMAIN tree)

\* C18: api_list() returns one path string for each node that is not VOID and
\* that is reached by names none of which starts with '_' or is a verb; the
\* VOID nodes, and the nodes under such a name, are left out.
C18_ListsCallableNodes ==
    lastcall.verb = "api_list" =>
        /\ Range(outcome.val) = { PathString(tree[q].parts) : q \in Reported }
        /\ Len(outcome.val) = Cardinality(Reported)

\* a VOID node left out, the node under it listed
C18_Witness ==
    /\ lastcall.verb = "api_list"
    /\ <<<<"v">>>> \in DOMAIN tree /\ <<<<"v">>, <<"c">>>> \in DOMAIN tree
    /\ <<"/", "v", "/", ":", "i", "d", "/", "c">> \in Range(outcome.val)
    /\ <<"/", "v">> \notin Range(outcome.val)

----------------------------------------------------------------------------
(* C21: a response with neither success nor errors *)

\* the normalised response of the last call is a dict with neither success
\* nor errors, and the call went through _call
Bare ==
    /\ Answered /\ Policy \in CallPolicies
    /\ Normalized.ok /\ Normalized.val.t = "dict"
    /\ "success" \notin DOMAIN Normalized.val.d
    /\ "errors" \notin DOMAIN Normalized.val.d
Given == Normalized.val.d
GivenCode == IF "code" \in DOMAIN Given THEN Given["code"] ELSE JNum(99998)
GivenMessage ==
    IF "message" \in DOMAIN Given THEN Given["message"]
    ELSE IF "error" \in DOMAIN Given THEN Given["error"]
    ELSE JStr("")

----------------------------------------------------------------------------
(* C22, C23: add() below an added endpoint, and a failed add() *)

\* the last call added an entry one component below an entry added before it
BelowAdded ==
    /\ lastcall.verb = "add"
    /\ \E f \in added :
          /\ f # lastcall.entry
          /\ Components(f.parts) =
                SubSeq(Components(lastcall.entry.parts), 1,
                       Len(Components(lastcall.entry.parts)) - 1)

\* C22 as stated: add() of an entry whose path is that of an added entry and
\* one more component does not raise the missing-element error, whatever the
\* components of the added entry, a dash or a keyword among them.
C22_AsStated ==
    BelowAdded => ~AddRaised("api load: element missing when adding path")

\* C23: an add() that raises (duplicate name, missing element, unknown type)
\* leaves the tree as it was: the same nodes under the same names with the
\* same policies, and none added.
C23_FailedAddKeepsTree ==
    [][(lastcall'.verb = "add" /\ ~outcome'.ok) => tree' = tree]_vars

\* the duplicate error raised for a CERT entry at a name an AUTH node holds
C23_Witness ==
    /\ lastcall.verb = "add" /\ ~outcome.ok
    /\ tree # <<>>
    /\ AddRaised("api load: duplicate name found")
    /\ lastcall.entry.t = "CERT"
    /\ tree[<<<<"a">>>>].t = "AUTH"

----------------------------------------------------------------------------
(* C24: requests of the endpoints without authentication *)

AuthConfigMessages ==
    { JStr("neither email/key or token defined"),
      JStr("confused info - both key and token defined"),
      JStr("email defined however neither key or token defined"),
      JStr("no cert token defined") }
PlainHeaders ==
    Put(One("User-Agent", USER_AGENT), "Content-Type", "application/json")

\* C24: a get on an OPEN endpoint hands the Transport one request whose
\* headers are User-Agent and Content-Type alone, none of Authorization,
\* X-Auth-Email, X-Auth-Key, X-Auth-User-Service-Key, the same under every
\* credential configuration, and no verb of an OPEN endpoint raises one of the
\* credential errors.
C24_OpenRequestsCarryNoCredential ==
    (Called /\ Policy = "OPEN") =>
        /\ lastcall.verb \in {"get", "call"} => Len(sent) = 1
        /\ \A i \in 1..Len(sent) :
              /\ sent[i].headers = PlainHeaders
              /\ (DOMAIN sent[i].headers) \cap AuthHeaderNames = {}
        /\ ~(/\ ~outcome.ok
             /\ outcome.exc.type = "CloudFlareAPIError"
             /\ outcome.exc.message \in AuthConfigMessages)

\* a get on an OPEN endpoint under a key and a token together
C24_Witness ==
    /\ Called /\ Policy = "OPEN"
    /\ KeyAndToken
    /\ Len(sent) = 1
    /\ outcome.ok

====
